---- MODULE Spec2Model ----
(***************************************************************************)
(* Model of plugins/utils.py: two completion providers behind a router,    *)
(* the owner-only option commands, the status report and the image proxy.  *)
(*                                                                         *)
(* Python values are records tagged by type; Python strings are TLA+       *)
(* strings, so str(), split(), len() and "in" are computed, not assumed.   *)
(* A symbol outside ASCII in a message is written as its bracketed name.   *)
(* Every coroutine of the module runs on one asyncio event loop: a         *)
(* coroutine is one action from its start to its first suspending await,   *)
(* and one more action from there to its return.                           *)
(***************************************************************************)
EXTENDS Integers, Sequences, FiniteSets, Bags, TLC

VARIABLES
    OWNER_ID,            \* line 15: os.getenv("OWNER_ID"), None or a string
    current_option,      \* line 20
    owner_temp_option,   \* line 21
    deepinfra_requests,  \* line 22
    g4f_requests,        \* line 23
    suspended,           \* bag of the coroutines parked at an await of real I/O
    last,                \* the call that just returned, until its caller takes the result
    admin,               \* history: the accepted option commands
    roundtrip,           \* history: progress of "fix 1, fix 2, status"
    calls                \* history: what the router calls did so far

vars == <<OWNER_ID, current_option, owner_temp_option, deepinfra_requests,
          g4f_requests, suspended, last, admin, roundtrip, calls>>

-----------------------------------------------------------------------------
(* Bounds *)

MaxCalls == 3        \* router calls in one run
MaxSuspended == 1    \* image fetches in flight at once

-----------------------------------------------------------------------------
(* Python values *)

None == [t |-> "none"]
PyStr(s) == [t |-> "str", s |-> s]
PyInt(n) == [t |-> "int", n |-> n]
PyBytes(b) == [t |-> "bytes", b |-> b]

Digits == <<"0", "1", "2", "3", "4", "5", "6", "7", "8", "9">>

RECURSIVE NatToStr(_)
NatToStr(n) ==
    IF n < 10 THEN Digits[n + 1]
    ELSE NatToStr(n \div 10) \o Digits[(n % 10) + 1]

\* str(x)
Str(x) ==
    CASE x.t = "none" -> "None"
      [] x.t = "str" -> x.s
      [] x.t = "int" -> IF x.n < 0 THEN "-" \o NatToStr(0 - x.n)
                        ELSE NatToStr(x.n)

\* bool(x), as "if x" evaluates it
Truthy(x) ==
    CASE x.t = "none" -> FALSE
      [] x.t = "str" -> x.s # ""
      [] x.t = "int" -> x.n # 0
      [] OTHER -> TRUE

\* sub in s
Contains(sub, s) ==
    \E i \in 1..(Len(s) - Len(sub) + 1) : SubSeq(s, i, i + Len(sub) - 1) = sub

\* the characters str.split() treats as separators, among those a command can hold
Whitespace == {" ", "\t", "\n", "\r", "\f"}

RECURSIVE SplitFrom(_, _, _)
SplitFrom(s, i, word) ==
    LET flush == IF word = "" THEN <<>> ELSE <<word>> IN
    IF i > Len(s) THEN flush
    ELSE IF SubSeq(s, i, i) \in Whitespace
         THEN flush \o SplitFrom(s, i + 1, "")
         ELSE SplitFrom(s, i + 1, word \o SubSeq(s, i, i))

\* s.strip().split()
Split(s) == SplitFrom(s, 1, "")

DigitValue(c) == (CHOOSE i \in 1..10 : Digits[i] = c) - 1

RECURSIVE StrToNat(_)
\* int(s) for a string of decimal digits
StrToNat(s) ==
    IF Len(s) = 1 THEN DigitValue(s)
    ELSE 10 * StrToNat(SubSeq(s, 1, Len(s) - 1))
         + DigitValue(SubSeq(s, Len(s), Len(s)))

-----------------------------------------------------------------------------
(* Option command handling, lines 117-143 *)

REFUSAL == "[no entry] Only the owner can use this command."
USAGE == "Usage: /tryoption <1|2> or /fixoption <1|2>"
INVALID == "[cross] Invalid option. Choose 1 or 2."

\* line 124 and line 158: str(user_id) == str(OWNER_ID)
IsOwner(user_id, owner) ==
    Str(user_id) = Str(owner)

\* the outcome of one call: the value returned and the globals it leaves
OptionResult(ret, cur, tmp) ==
    [ret |-> PyStr(ret), current_option |-> cur, owner_temp_option |-> tmp]

\* line 139
TryConfirmation(value) ==
    "[check] Temporary model switched to Option " \o NatToStr(value)
    \o " (for owner only)."

\* line 143
FixConfirmation(value) ==
    "[check] Global model permanently changed to Option " \o NatToStr(value)
    \o "."

ApplyOption_KeepTemp(cmd, value, cur, tmp) ==
    IF cmd = "/tryoption"
    THEN OptionResult(TryConfirmation(value), cur, PyInt(value))
    ELSE OptionResult(FixConfirmation(value), value, tmp)

ApplyOption_TrySetsGlobal(cmd, value, cur, tmp) ==
    IF cmd = "/tryoption"
    THEN OptionResult(TryConfirmation(value), value, PyInt(value))
    ELSE OptionResult(FixConfirmation(value), value, None)

\* lines 137-143
ApplyOption(cmd, value, cur, tmp) ==
    IF cmd = "/tryoption"
    THEN OptionResult(TryConfirmation(value), cur, PyInt(value))
    ELSE OptionResult(FixConfirmation(value), value, None)

handle_option_command_ParseFirst(user_id, command, owner, cur, tmp) ==
    LET parts == Split(command) IN
    IF Len(parts) # 2 \/ parts[1] \notin {"/tryoption", "/fixoption"}
    THEN OptionResult(USAGE, cur, tmp)
    ELSE IF parts[2] \notin {"1", "2"}
    THEN OptionResult(INVALID, cur, tmp)
    ELSE LET done == ApplyOption(parts[1], StrToNat(parts[2]), cur, tmp) IN
         IF ~IsOwner(user_id, owner)
         THEN [done EXCEPT !.ret = PyStr(REFUSAL)]
         ELSE done

\* lines 117-143
handle_option_command(user_id, command, owner, cur, tmp) ==
    IF ~IsOwner(user_id, owner)
    THEN OptionResult(REFUSAL, cur, tmp)
    ELSE LET parts == Split(command) IN
         IF Len(parts) # 2 \/ parts[1] \notin {"/tryoption", "/fixoption"}
         THEN OptionResult(USAGE, cur, tmp)
         ELSE IF parts[2] \notin {"1", "2"}
         THEN OptionResult(INVALID, cur, tmp)
         ELSE ApplyOption(parts[1], StrToNat(parts[2]), cur, tmp)

-----------------------------------------------------------------------------
(* Model status, lines 149-163 *)

CurrentLine_IgnoreCaller(user_id, owner, cur, tmp) ==
    IF Truthy(tmp)
    THEN "Current Model: Option " \o Str(tmp) \o " (temporary for owner)"
    ELSE "Current Model: Option " \o NatToStr(cur)

\* lines 158-161
CurrentLine(user_id, owner, cur, tmp) ==
    IF IsOwner(user_id, owner) /\ Truthy(tmp)
    THEN "Current Model: Option " \o Str(tmp) \o " (temporary for owner)"
    ELSE "Current Model: Option " \o NatToStr(cur)

\* lines 155-163; the text is kept as the sequence of its lines
handle_status_command(user_id, owner, cur, tmp, nA, nB) ==
    << "[chart] Model Status",
       "",
       "Option 1 -> DeepInfra",
       "Total Requests: " \o NatToStr(nA),
       "",
       "Option 2 -> g4f + DuckDuckGo",
       "Total Requests: " \o NatToStr(nB),
       "",
       CurrentLine(user_id, owner, cur, tmp) >>

-----------------------------------------------------------------------------
(* Router selection, lines 102-106 *)

option_to_use_AnyCaller(user_id, owner, cur, tmp) ==
    IF Truthy(tmp) THEN tmp.n ELSE cur

\* lines 102-106
option_to_use(user_id, owner, cur, tmp) ==
    IF Truthy(user_id) /\ Str(user_id) = Str(owner) /\ Truthy(tmp)
    THEN tmp.n
    ELSE cur

\* lines 108-111: the coroutine the router awaits
Callee(option) ==
    IF option = 2 THEN "g4f_response" ELSE "deepinfra_response"

-----------------------------------------------------------------------------
(* Exceptions and subscripting *)

\* a step of a function body either yields a value or raises
Value(v) == [exc |-> "", msg |-> "", v |-> v]
Raise(type, msg) == [exc |-> type, msg |-> msg, v |-> None]

\* decoded JSON: a dict is a function on its keys, a list a sequence
Dict(d) == [t |-> "dict", d |-> d]
List(l) == [t |-> "list", l |-> l]

\* v[key]
Subscript(v, key) ==
    CASE v.t = "dict" ->
            IF key.t = "str" /\ key.s \in DOMAIN v.d
            THEN Value(v.d[key.s])
            ELSE Raise("KeyError", IF key.t = "str" THEN "'" \o key.s \o "'"
                                   ELSE Str(key))
      [] v.t = "list" ->
            IF key.t # "int"
            THEN Raise("TypeError", "list indices must be integers or slices, not str")
            ELSE IF key.n >= 0 /\ key.n < Len(v.l)
            THEN Value(v.l[key.n + 1])
            ELSE Raise("IndexError", "list index out of range")
      [] v.t = "str" ->
            IF key.t # "int"
            THEN Raise("TypeError", "string indices must be integers")
            ELSE IF key.n >= 0 /\ key.n < Len(v.s)
            THEN Value(PyStr(SubSeq(v.s, key.n + 1, key.n + 1)))
            ELSE Raise("IndexError", "string index out of range")
      [] OTHER -> Raise("TypeError", "object is not subscriptable")

RECURSIVE Path(_, _)
\* v[keys[1]][keys[2]]..., stopping at the first exception
Path(v, keys) ==
    IF keys = <<>> THEN Value(v)
    ELSE LET r == Subscript(v, Head(keys)) IN
         IF r.exc # "" THEN r ELSE Path(r.v, Tail(keys))

-----------------------------------------------------------------------------
(* Option 1, DeepInfra, lines 32-59 *)

APOLOGY == "I'm sorry, I couldn't get a response from DeepInfra right now."

\* what a provider call leaves: the value returned, the exception that
\* escapes it ("" when none), its counter, and the requests it issued
ProviderResult(ret, raised, counter, trace) ==
    [ret |-> ret, raised |-> raised, counter |-> counter, trace |-> trace]

DeepinfraBody_CountOnSuccess(history, post, counter) ==
    IF post.kind = "raise"
    THEN [r |-> Raise(post.exc, post.msg), counter |-> counter]
    ELSE IF ~post.is_json
    THEN [r |-> Raise("JSONDecodeError", "Expecting value: line 1 column 1 (char 0)"),
          counter |-> counter]
    ELSE LET content == Path(post.data, <<PyStr("choices"), PyInt(0),
                                          PyStr("message"), PyStr("content")>>)
         IN [r |-> content,
             counter |-> IF content.exc = "" THEN counter + 1 ELSE counter]

\* lines 53-56: post is what requests.post() does, an exception or a response
\* whose body is JSON text or not
DeepinfraBody(history, post, counter) ==
    IF post.kind = "raise"
    THEN [r |-> Raise(post.exc, post.msg), counter |-> counter]
    ELSE IF ~post.is_json
    THEN [r |-> Raise("JSONDecodeError", "Expecting value: line 1 column 1 (char 0)"),
          counter |-> counter]
    ELSE [r |-> Path(post.data, <<PyStr("choices"), PyInt(0),
                                   PyStr("message"), PyStr("content")>>),
          counter |-> counter + 1]

\* lines 32-59
deepinfra_response(history, post, counter) ==
    LET body == DeepinfraBody(history, post, counter)
        trace == <<[api |-> "deepinfra", messages |-> history, reply |-> post]>>
    IN IF body.r.exc # ""
       THEN ProviderResult(PyStr(APOLOGY), "", body.counter, trace)
       ELSE ProviderResult(body.r.v, "", body.counter, trace)

-----------------------------------------------------------------------------
(* Option 2, g4f with DuckDuckGo fallback, lines 65-90 *)

\* client.chat.completions.create(...).choices[0].message.content; a reply
\* lists, choice by choice, the content of its message
Completion(reply) ==
    IF reply.kind = "raise" THEN Raise(reply.exc, reply.msg)
    ELSE Path(List(reply.choices), <<PyInt(0)>>)

\* line 78; raises when response is not a string
LowConfidence(response) ==
    IF response.t # "str"
    THEN Raise("TypeError", "argument of type 'NoneType' is not iterable")
    ELSE Value(Contains("I don't know", response.s) \/ Len(response.s) < 20)

RECURSIVE Join(_, _)
\* sep.join(strings)
Join(sep, strings) ==
    IF strings = <<>> THEN ""
    ELSE IF Len(strings) = 1 THEN strings[1]
    ELSE strings[1] \o sep \o Join(sep, Tail(strings))

RECURSIVE Bodies(_)
\* [r["body"] for r in results]
Bodies(results) ==
    IF results = <<>> THEN Value(<<>>)
    ELSE LET b == Subscript(results[1], PyStr("body"))
             rest == Bodies(Tail(results))
         IN IF b.exc # "" THEN b
            ELSE IF b.v.t # "str"
            THEN Raise("TypeError", "sequence item 0: expected str instance")
            ELSE IF rest.exc # "" THEN rest
            ELSE Value(<<b.v.s>> \o rest.v)

\* lines 79-81: search is what DDGS().text(prompt) does
CombinedPrompt(prompt, search) ==
    IF search.kind = "raise" THEN Raise(search.exc, search.msg)
    ELSE LET first3 == SubSeq(search.results, 1,
                              IF Len(search.results) < 3
                              THEN Len(search.results) ELSE 3)
             bodies == Bodies(first3)
         IN IF bodies.exc # "" THEN bodies
            ELSE Value(prompt \o "\n\nUse this web info to answer:\n"
                       \o Join("\n", bodies.v))

\* line 70
Prompt(history) ==
    IF history # <<>> THEN history[Len(history)].content ELSE "Hello"

G4fStep(r, counter, trace) == [r |-> r, counter |-> counter, trace |-> trace]

\* lines 79-85, the fallback once the first response is low-confidence
G4fFallback(history, search, second, counter, trace) ==
    LET combined == CombinedPrompt(Prompt(history), search)
        trace2 == Append(trace, [api |-> "ddgs", query |-> Prompt(history),
                                 reply |-> search])
    IN IF combined.exc # ""
       THEN G4fStep(combined, counter, trace2)
       ELSE LET messages == <<[role |-> "user", content |-> combined.v]>>
            IN G4fStep(Completion(second), counter,
                       Append(trace2, [api |-> "g4f", messages |-> messages,
                                       reply |-> second]))

G4fBody_CountTwice(history, first, search, second, counter) ==
    LET response == Completion(first)
        trace == <<[api |-> "g4f", messages |-> history, reply |-> first]>>
    IN IF response.exc # "" THEN G4fStep(response, counter, trace)
       ELSE LET low == LowConfidence(response.v) IN
            IF low.exc # "" THEN G4fStep(low, counter + 1, trace)
            ELSE IF low.v
            THEN G4fFallback(history, search, second, counter + 2, trace)
            ELSE G4fStep(response, counter + 1, trace)

\* lines 69-87
G4fBody(history, first, search, second, counter) ==
    LET response == Completion(first)
        trace == <<[api |-> "g4f", messages |-> history, reply |-> first]>>
    IN IF response.exc # "" THEN G4fStep(response, counter, trace)
       ELSE LET low == LowConfidence(response.v) IN
            IF low.exc # "" THEN G4fStep(low, counter + 1, trace)
            ELSE IF low.v
            THEN G4fFallback(history, search, second, counter + 1, trace)
            ELSE G4fStep(response, counter + 1, trace)

\* lines 65-90
g4f_response(history, first, search, second, counter) ==
    LET body == G4fBody(history, first, search, second, counter) IN
    IF body.r.exc # ""
    THEN ProviderResult(PyStr("Error: " \o body.r.msg), "", body.counter,
                        body.trace)
    ELSE ProviderResult(body.r.v, "", body.counter, body.trace)

-----------------------------------------------------------------------------
(* Image generation, lines 169-187 *)

B64Alphabet ==
    "ABCDEFGHIJKLMNOPQRSTUVWXYZabcdefghijklmnopqrstuvwxyz0123456789+/"

IsB64Char(c) == \E i \in 1..64 : SubSeq(B64Alphabet, i, i) = c

B64Index(c) == (CHOOSE i \in 1..64 : SubSeq(B64Alphabet, i, i) = c) - 1

RECURSIVE B64Clean(_)
\* the decoder skips every character outside the alphabet
B64Clean(s) ==
    IF s = "" THEN ""
    ELSE LET c == SubSeq(s, 1, 1)
             rest == B64Clean(SubSeq(s, 2, Len(s)))
         IN IF IsB64Char(c) \/ c = "=" THEN c \o rest ELSE rest

\* the bytes of one group of four characters, <<-1>> when it is malformed
B64Quad(q, isLast) ==
    LET c(i) == SubSeq(q, i, i)
        n(i) == IF c(i) = "=" THEN 0 ELSE B64Index(c(i))
        word == n(1) * 262144 + n(2) * 4096 + n(3) * 64 + n(4)
        bytes == <<word \div 65536, (word \div 256) % 256, word % 256>>
    IN IF c(1) = "=" \/ c(2) = "=" THEN <<-1>>
       ELSE IF c(3) = "=" /\ c(4) = "=" THEN
            IF isLast THEN SubSeq(bytes, 1, 1) ELSE <<-1>>
       ELSE IF c(3) = "=" THEN <<-1>>
       ELSE IF c(4) = "=" THEN
            IF isLast THEN SubSeq(bytes, 1, 2) ELSE <<-1>>
       ELSE bytes

RECURSIVE B64Quads(_)
B64Quads(s) ==
    IF s = "" THEN <<>>
    ELSE LET q == B64Quad(SubSeq(s, 1, 4), Len(s) = 4)
             rest == B64Quads(SubSeq(s, 5, Len(s)))
         IN IF q = <<-1>> \/ rest = <<-1>> THEN <<-1>> ELSE q \o rest

\* base64.b64decode(x), line 178
b64decode(x) ==
    IF x.t # "str"
    THEN Raise("TypeError", "argument should be a bytes-like object or ASCII string")
    ELSE LET clean == B64Clean(x.s) IN
         IF Len(clean) % 4 # 0 THEN Raise("Error", "Incorrect padding")
         ELSE LET bytes == B64Quads(clean) IN
              IF bytes = <<-1>> THEN Raise("Error", "Incorrect padding")
              ELSE Value(PyBytes(bytes))

\* lines 175-179 from the moment cl.get() resumes: get is what it resumes
\* with, an exception or a response
ImageBody(get) ==
    IF get.kind = "raise" THEN Raise(get.exc, get.msg)
    ELSE IF get.status < 200 \/ get.status >= 300
    THEN Raise("HTTPStatusError", "Client or server error")
    ELSE IF ~get.is_json
    THEN Raise("JSONDecodeError", "Expecting value: line 1 column 1 (char 0)")
    ELSE LET image == Subscript(get.data, PyStr("image")) IN
         IF image.exc # "" THEN image ELSE b64decode(image.v)

RequestErrors == {"ConnectError", "ReadTimeout"}

\* lines 169-187: the buffer or None, and the except clause that logged
create_image(encoded_prompt, get) ==
    LET body == ImageBody(get) IN
    IF body.exc = "" THEN [ret |-> body.v, raised |-> "", log |-> ""]
    ELSE IF body.exc = "HTTPStatusError"
    THEN [ret |-> None, raised |-> "", log |-> "HTTP error occurred"]
    ELSE IF body.exc \in RequestErrors
    THEN [ret |-> None, raised |-> "", log |-> "Request error occurred"]
    ELSE [ret |-> None, raised |-> "", log |-> "An unexpected error occurred"]

-----------------------------------------------------------------------------
(* Inputs: callers, commands, histories and what the remote services do *)

OwnerIds == {None, PyStr(""), PyStr("0"), PyStr("7")}

UserIds == {None, PyStr(""), PyInt(0), PyInt(7), PyInt(8)}

Commands ==
    { "/tryoption 1", "/tryoption 2", "/fixoption 1", "/fixoption 2",
      "  /fixoption \t2\n", "/fixoption 3", "/tryoption", "/setoption 1" }

Histories ==
    { <<>>,
      << [role |-> "system", content |-> "Be brief."],
         [role |-> "user", content |-> "Capital of France?"] >> }

Response(status, is_json, data) ==
    [kind |-> "response", status |-> status, is_json |-> is_json, data |-> data]

Failure(exc, msg) == [kind |-> "raise", exc |-> exc, msg |-> msg]

ChatJson(content) ==
    Dict([choices |-> List(<<Dict([message |-> Dict([content |-> content])])>>)])

\* requests.post to DeepInfra
Posts ==
    { Failure("ConnectionError", "connection refused"),
      Response(502, FALSE, None),
      Response(429, TRUE, Dict([error |-> PyStr("rate limited")])),
      Response(200, TRUE, Dict([choices |-> List(<<>>)])),
      Response(200, TRUE, ChatJson(None)),
      Response(200, TRUE, ChatJson(PyStr("Paris."))) }

Choices(contents) == [kind |-> "completion", choices |-> contents]

Short19 == "Paris, I would say."
Long20 == "Paris, I would say!!"
Unsure == "Honestly, I don't know that one."

\* the first completion of g4f
Firsts ==
    { Failure("RuntimeError", "no provider"),
      Choices(<<>>),
      Choices(<<None>>),
      Choices(<<PyStr(Short19)>>),
      Choices(<<PyStr(Unsure)>>),
      Choices(<<PyStr(Long20)>>) }

Hit(body) == Dict([title |-> PyStr("t"), body |-> PyStr(body)])

\* DDGS().text
Searches ==
    { Failure("RatelimitException", "202 Ratelimit"),
      [kind |-> "results", results |-> <<Hit("w1")>>],
      [kind |-> "results", results |-> <<Hit("w1"), Hit("w2"), Hit("w3"), Hit("w4")>>] }

\* the second completion of g4f
Seconds ==
    { Failure("RuntimeError", "no provider"),
      Choices(<<None>>),
      Choices(<<PyStr("Paris.")>>) }

\* cl.get to the image endpoint
Gets ==
    { Failure("ConnectError", "all attempts failed"),
      Response(404, TRUE, Dict([detail |-> PyStr("Not Found")])),
      Response(200, FALSE, None),
      Response(200, TRUE, Dict([error |-> PyStr("busy")])),
      Response(200, TRUE, Dict([image |-> None])),
      Response(200, TRUE, Dict([image |-> PyStr("QUJ")])),
      Response(200, TRUE, Dict([image |-> PyStr("QUI=")])) }

ImagePrompts == {"cat"}

Unused == [kind |-> "unused"]

\* the replies one g4f_response call can consume: a search only after a
\* low-confidence first response, a second completion only after a search
G4fReplies(history) ==
    LET searched(first) ==
            /\ Completion(first).exc = ""
            /\ LowConfidence(Completion(first).v).exc = ""
            /\ LowConfidence(Completion(first).v).v
        asked(search) == CombinedPrompt(Prompt(history), search).exc = ""
    IN { r \in Firsts \X (Searches \cup {Unused}) \X (Seconds \cup {Unused}) :
           /\ (r[2] # Unused) <=> searched(r[1])
           /\ (r[3] # Unused) <=> (r[2] # Unused /\ asked(r[2])) }

-----------------------------------------------------------------------------
(* The state machine *)

globals == <<current_option, owner_temp_option, deepinfra_requests, g4f_requests>>

Snapshot ==
    [current_option |-> current_option, owner_temp_option |-> owner_temp_option,
     deepinfra_requests |-> deepinfra_requests, g4f_requests |-> g4f_requests]

Init ==
    /\ OWNER_ID \in OwnerIds
    /\ current_option = 1
    /\ owner_temp_option = None
    /\ deepinfra_requests = 0
    /\ g4f_requests = 0
    /\ suspended = EmptyBag
    /\ last = [kind |-> "none"]
    /\ admin = [cmd |-> "none", value |-> 0, tried |-> {},
                before |-> [current_option |-> 1, owner_temp_option |-> None],
                pair |-> [current_option |-> 1, owner_temp_option |-> None]]
    /\ roundtrip = [stage |-> 0, deepinfra_requests |-> 0, g4f_requests |-> 0]
    /\ calls = [deepinfra |-> [returned |-> 0, decoded |-> 0],
                g4f |-> [returned |-> 0, decoded |-> 0]]

\* the command a confirmation message accepts, <<>> for any other message
Accepted(ret) ==
    IF \E v \in {1, 2} : ret = PyStr(TryConfirmation(v))
    THEN <<"/tryoption", CHOOSE v \in {1, 2} : ret = PyStr(TryConfirmation(v))>>
    ELSE IF \E v \in {1, 2} : ret = PyStr(FixConfirmation(v))
    THEN <<"/fixoption", CHOOSE v \in {1, 2} : ret = PyStr(FixConfirmation(v))>>
    ELSE <<>>

\* history of the accepted commands: the last one, the globals before it and
\* after it, and the values tried since the last accepted /fixoption
AdminAfter(accepted, result) ==
    IF accepted = <<>> THEN admin
    ELSE [cmd |-> accepted[1], value |-> accepted[2],
          tried |-> IF accepted[1] = "/tryoption"
                    THEN admin.tried \cup {accepted[2]} ELSE {},
          before |-> [current_option |-> current_option,
                      owner_temp_option |-> owner_temp_option],
          pair |-> [current_option |-> result.current_option,
                    owner_temp_option |-> result.owner_temp_option]]

RoundtripAfter(accepted) ==
    IF accepted = <<"/fixoption", 1>>
    THEN [stage |-> 1, deepinfra_requests |-> deepinfra_requests,
          g4f_requests |-> g4f_requests]
    ELSE IF accepted = <<"/fixoption", 2>> /\ roundtrip.stage = 1
    THEN [roundtrip EXCEPT !.stage = 2]
    ELSE [stage |-> 0, deepinfra_requests |-> 0, g4f_requests |-> 0]

Idle == last.kind = "none"

\* handle_option_command has no await: it runs from call to return
OptionCommand(user_id, command) ==
    LET result == handle_option_command(user_id, command, OWNER_ID,
                                        current_option, owner_temp_option)
        accepted == Accepted(result.ret)
    IN /\ Idle
       /\ current_option' = result.current_option
       /\ owner_temp_option' = result.owner_temp_option
       /\ last' = [kind |-> "option", user_id |-> user_id, command |-> command,
                   ret |-> result.ret, raised |-> "", pre |-> Snapshot]
       /\ admin' = AdminAfter(accepted, result)
       /\ roundtrip' = RoundtripAfter(accepted)
       /\ UNCHANGED <<OWNER_ID, deepinfra_requests, g4f_requests, suspended, calls>>

\* handle_status_command has no await either
StatusCommand(user_id) ==
    /\ Idle
    /\ last' = [kind |-> "status", user_id |-> user_id,
                ret |-> handle_status_command(user_id, OWNER_ID, current_option,
                                              owner_temp_option,
                                              deepinfra_requests, g4f_requests),
                raised |-> "", pre |-> Snapshot]
    /\ roundtrip' = IF roundtrip.stage = 2 THEN roundtrip
                    ELSE [stage |-> 0, deepinfra_requests |-> 0, g4f_requests |-> 0]
    /\ UNCHANGED <<OWNER_ID, globals, suspended, admin, calls>>

AwaitSuspends_Providers(callee) ==
    callee \in {"cl.get", "deepinfra_response", "g4f_response"}

\* whether "await callee" hands control back to the event loop: cl.get does
\* network I/O on the loop (line 175); deepinfra_response and g4f_response
\* (lines 109, 111) call blocking clients and contain no await
AwaitSuspends(callee) ==
    callee = "cl.get"

\* history of one provider's calls: those whose first completion call
\* returned, and among them those whose reply decoded (to JSON for DeepInfra,
\* to a first choice for g4f)
CallsAfter(count, reply) ==
    LET decoded == IF reply.kind = "response" THEN reply.is_json
                   ELSE reply.kind = "completion" /\ reply.choices # <<>>
    IN [returned |-> count.returned + (IF reply.kind # "raise" THEN 1 ELSE 0),
        decoded |-> count.decoded + (IF decoded THEN 1 ELSE 0)]

\* the provider call of a router call, lines 108-111, and its return
Return(task, result) ==
    LET reply == result.trace[1].reply
    IN /\ IF task.callee = "g4f_response"
          THEN /\ g4f_requests' = result.counter
               /\ UNCHANGED deepinfra_requests
          ELSE /\ deepinfra_requests' = result.counter
               /\ UNCHANGED g4f_requests
       /\ last' = [kind |-> "route", user_id |-> task.user_id,
                   history |-> task.history, callee |-> task.callee,
                   ret |-> result.ret, raised |-> result.raised,
                   trace |-> result.trace, pre |-> Snapshot,
                   started |-> task.started]
       /\ calls' = IF task.callee = "g4f_response"
                   THEN [calls EXCEPT !.g4f = CallsAfter(@, reply)]
                   ELSE [calls EXCEPT !.deepinfra = CallsAfter(@, reply)]
       /\ roundtrip' = [stage |-> 0, deepinfra_requests |-> 0, g4f_requests |-> 0]
       /\ UNCHANGED <<OWNER_ID, current_option, owner_temp_option, admin>>

Dispatch(task) ==
    IF task.callee = "g4f_response"
    THEN \E r \in G4fReplies(task.history) :
            Return(task, g4f_response(task.history, r[1], r[2], r[3], g4f_requests))
    ELSE \E post \in Posts :
            Return(task, deepinfra_response(task.history, post, deepinfra_requests))

\* get_ai_response, lines 96-111
GetAiResponse(history, user_id) ==
    /\ Idle
    /\ calls.deepinfra.returned + calls.g4f.returned < MaxCalls
    /\ LET option == option_to_use(user_id, OWNER_ID, current_option,
                                   owner_temp_option)
           task == [kind |-> "route", callee |-> Callee(option),
                    history |-> history, user_id |-> user_id,
                    started |-> admin.pair]
       IN IF AwaitSuspends(task.callee)
          THEN /\ BagCardinality(suspended) < MaxSuspended
               /\ suspended' = suspended (+) SetToBag({task})
               /\ UNCHANGED <<OWNER_ID, globals, last, admin, roundtrip, calls>>
          ELSE /\ Dispatch(task)
               /\ UNCHANGED suspended

\* the return of create_image, lines 176-187
ImageReturn(task, get) ==
    LET result == create_image(task.encoded_prompt, get) IN
    /\ last' = [kind |-> "image", encoded_prompt |-> task.encoded_prompt,
                reply |-> get, ret |-> result.ret, raised |-> result.raised,
                log |-> result.log, pre |-> Snapshot]
    /\ roundtrip' = [stage |-> 0, deepinfra_requests |-> 0, g4f_requests |-> 0]
    /\ UNCHANGED <<OWNER_ID, globals, admin, calls>>

\* create_image up to "await cl.get", line 175
CreateImage(encoded_prompt) ==
    LET task == [kind |-> "image", callee |-> "cl.get",
                 encoded_prompt |-> encoded_prompt]
    IN /\ Idle
       /\ IF AwaitSuspends(task.callee)
          THEN /\ BagCardinality(suspended) < MaxSuspended
               /\ suspended' = suspended (+) SetToBag({task})
               /\ UNCHANGED <<OWNER_ID, globals, last, admin, roundtrip, calls>>
          ELSE /\ \E get \in Gets : ImageReturn(task, get)
               /\ UNCHANGED suspended

\* the event loop resumes a suspended coroutine when its I/O has completed
Resume(task) ==
    /\ Idle
    /\ BagIn(task, suspended)
    /\ suspended' = suspended (-) SetToBag({task})
    /\ IF task.kind = "image"
       THEN \E get \in Gets : ImageReturn(task, get)
       ELSE Dispatch(task)

\* the caller takes the value returned; the globals are those the call left
TakeResult ==
    /\ ~Idle
    /\ last' = [kind |-> "none"]
    /\ UNCHANGED <<OWNER_ID, globals, suspended, admin, roundtrip, calls>>

Next ==
    \/ \E user_id \in UserIds, command \in Commands :
          OptionCommand(user_id, command)
    \/ \E user_id \in UserIds : StatusCommand(user_id)
    \/ \E history \in Histories, user_id \in UserIds :
          GetAiResponse(history, user_id)
    \/ \E encoded_prompt \in ImagePrompts : CreateImage(encoded_prompt)
    \/ \E task \in BagToSet(suspended) : Resume(task)
    \/ TakeResult

Spec == Init /\ [][Next]_vars

TypeOK ==
    /\ current_option \in {1, 2}
    /\ owner_temp_option \in {None, PyInt(1), PyInt(2)}
    /\ deepinfra_requests \in 0..MaxCalls
    /\ g4f_requests \in 0..MaxCalls

-----------------------------------------------------------------------------
(* Vocabulary of the properties *)

\* the provider a router call dispatched to: where its first request went
Used == last.trace[1].api

\* Provider Client B for selection 2, Provider Client A otherwise
ProviderOf(selection) == IF selection = 2 THEN "g4f" ELSE "deepinfra"

\* the caller's identity, compared as a string, equals PrivilegedIdentity
Privileged(user_id) == Str(user_id) = Str(OWNER_ID)

\* the caller's identity is present, non-empty and string-equal
PresentPrivileged(user_id) == Truthy(user_id) /\ Privileged(user_id)

Unchanged == Snapshot = last.pre

WellFormed(command) ==
    command \in {"/tryoption 1", "/tryoption 2", "/fixoption 1", "/fixoption 2"}

-----------------------------------------------------------------------------
(* C1 *)

\* C1: an option command from a caller whose identity, as a string, differs
\* from OWNER_ID returns the refusal message and leaves current_option,
\* owner_temp_option and both counters as they were, whatever the command.
C1_RefusalChangesNothing ==
    (last.kind = "option" /\ ~Privileged(last.user_id))
        => (last.ret = PyStr(REFUSAL) /\ Unchanged)

\* a well-formed /fixoption 2 from a stranger, while option 1 is selected
C1_Witness ==
    /\ last.kind = "option"
    /\ ~Privileged(last.user_id)
    /\ last.command = "/fixoption 2"
    /\ last.pre.current_option = 1

(* C2 *)

\* C2: a router call whose caller is absent or not string-equal to OWNER_ID
\* dispatches to the provider of current_option (g4f iff it is 2), whatever
\* owner_temp_option holds.
C2_OthersUseGlobal ==
    (last.kind = "route"
     /\ (last.user_id = None \/ ~Privileged(last.user_id)))
        => /\ Used = ProviderOf(last.pre.current_option)
           /\ last.callee = Callee(last.pre.current_option)

\* a stranger is routed to DeepInfra while the owner's override says 2
C2_Witness ==
    /\ last.kind = "route"
    /\ ~Privileged(last.user_id)
    /\ last.user_id # None
    /\ last.pre.owner_temp_option = PyInt(2)
    /\ last.pre.current_option = 1
    /\ Used = "deepinfra"

(* C3 *)

\* C3: an accepted /fixoption v leaves current_option = v and
\* owner_temp_option unset, and while it is the last accepted command every
\* router call, from the owner or anyone else, goes to the provider of v.
C3_FixIsGlobal ==
    /\ \A v \in {1, 2} :
          (last.kind = "option" /\ last.ret = PyStr(FixConfirmation(v)))
              => (current_option = v /\ owner_temp_option = None)
    /\ (last.kind = "route" /\ admin.cmd = "/fixoption")
          => Used = ProviderOf(admin.value)

\* the owner is routed to g4f after /fixoption 2 cleared an override of 1
C3_Witness ==
    /\ last.kind = "route"
    /\ admin.cmd = "/fixoption"
    /\ admin.value = 2
    /\ admin.before.owner_temp_option = PyInt(1)
    /\ admin.before.current_option = 1
    /\ PresentPrivileged(last.user_id)
    /\ Used = "g4f"

(* C4 *)

G4fCall == last.kind = "route" /\ last.callee = "g4f_response"

\* the first completion returned a text
FirstIsText ==
    /\ last.trace[1].reply.kind = "completion"
    /\ last.trace[1].reply.choices # <<>>
    /\ last.trace[1].reply.choices[1].t = "str"

FirstText == last.trace[1].reply.choices[1].s

Low(text) == Len(text) < 20 \/ Contains("I don't know", text)

Issued(api) == Cardinality({i \in DOMAIN last.trace : last.trace[i].api = api})

\* C5 as stated: after a low-confidence first response exactly one search and
\* exactly one second completion, of a single message, are issued, the value
\* returned is the second completion's result and g4f_requests grew by 1;
\* otherwise nothing more is issued, the first response is returned and
\* g4f_requests grew by 1.
C5_AsStated ==
    (G4fCall /\ FirstIsText) =>
        /\ g4f_requests = last.pre.g4f_requests + 1
        /\ IF Low(FirstText)
           THEN /\ Issued("ddgs") = 1
                /\ Issued("g4f") = 2
                /\ Len(last.trace[3].messages) = 1
                /\ last.trace[3].reply.kind = "completion"
                /\ last.ret = last.trace[3].reply.choices[1]
           ELSE /\ Issued("ddgs") = 0
                /\ Issued("g4f") = 1
                /\ last.ret = PyStr(FirstText)

\* C5 amended: after a low-confidence first response exactly one search is
\* issued; when the search succeeds exactly one second completion, of a
\* single message, is issued, and its result is the value returned when that
\* completion succeeds; when the search or the second completion fails no
\* further request is issued and the value returned is the "Error: ..."
\* string of the failure; g4f_requests grew by exactly 1 in each case.  After
\* any other first text nothing more is issued, it is returned, and
\* g4f_requests grew by 1.
C5_FallbackOnce ==
    (G4fCall /\ FirstIsText) =>
        /\ g4f_requests = last.pre.g4f_requests + 1
        /\ IF Low(FirstText)
           THEN /\ Issued("ddgs") = 1
                /\ last.trace[2].api = "ddgs"
                /\ IF last.trace[2].reply.kind = "raise"
                   THEN /\ Issued("g4f") = 1
                        /\ last.ret = PyStr("Error: " \o last.trace[2].reply.msg)
                   ELSE /\ Issued("g4f") = 2
                        /\ Len(last.trace) = 3
                        /\ Len(last.trace[3].messages) = 1
                        /\ IF last.trace[3].reply.kind = "raise"
                           THEN last.ret = PyStr("Error: " \o last.trace[3].reply.msg)
                           ELSE last.ret = last.trace[3].reply.choices[1]
           ELSE /\ Issued("ddgs") = 0
                /\ Issued("g4f") = 1
                /\ last.ret = PyStr(FirstText)

\* a 19-character first response, a search, and the second completion's text
C5_Witness ==
    /\ G4fCall
    /\ FirstIsText
    /\ FirstText = Short19
    /\ last.pre.g4f_requests = 1
    /\ g4f_requests = 2
    /\ Len(last.trace) = 3
    /\ last.ret = PyStr("Paris.")

(* C6 *)

DeepinfraCall == last.kind = "route" /\ last.callee = "deepinfra_response"

\* C6 as stated: deepinfra_requests grows by 1 whenever requests.post
\* returns, also when the response then fails to parse, stays when
\* requests.post fails, and g4f_requests never changes.
C6_AsStated ==
    DeepinfraCall =>
        /\ g4f_requests = last.pre.g4f_requests
        /\ deepinfra_requests = last.pre.deepinfra_requests
              + (IF last.trace[1].reply.kind = "raise" THEN 0 ELSE 1)

\* C6 amended: deepinfra_requests grows by 1 whenever requests.post returns
\* and the body of the response decodes as JSON, also when the completion
\* text cannot then be extracted from it and the apology is returned; it
\* stays when requests.post fails or the body is not JSON; g4f_requests never
\* changes.
C6_CountsDecodedResponses ==
    DeepinfraCall =>
        /\ g4f_requests = last.pre.g4f_requests
        /\ deepinfra_requests = last.pre.deepinfra_requests
              + (IF /\ last.trace[1].reply.kind = "response"
                    /\ last.trace[1].reply.is_json
                 THEN 1 ELSE 0)

\* a 429 whose JSON body has no "choices": apology returned, call counted
C6_Witness ==
    /\ DeepinfraCall
    /\ last.trace[1].reply.kind = "response"
    /\ last.trace[1].reply.status = 429
    /\ last.ret = PyStr(APOLOGY)
    /\ deepinfra_requests = last.pre.deepinfra_requests + 1

(* C7 *)

\* C7: whatever the remote services do, a router call returns a string and
\* raises nothing, and create_image returns a buffer or None and raises
\* nothing.
C7_NothingEscapes ==
    /\ last.kind = "route" => (last.raised = "" /\ last.ret.t = "str")
    /\ last.kind = "image" => (last.raised = "" /\ last.ret.t \in {"bytes", "none"})

(* C8 *)

CurrentLines ==
    {i \in DOMAIN last.ret :
        /\ Len(last.ret[i]) >= 14
        /\ SubSeq(last.ret[i], 1, 14) = "Current Model:"}

\* C8: a status call changes nothing; its text has the two counters, each
\* under its provider's name, and exactly one "Current Model" line, which
\* names owner_temp_option as temporary for owner when the caller is
\* string-equal to OWNER_ID and the override is set, and current_option
\* otherwise; right after accepted "/fixoption 1", "/fixoption 2" it names
\* Option 2 and the counters are those from before the two commands.
C8_StatusReport ==
    last.kind = "status" =>
        /\ Unchanged
        /\ \E i \in DOMAIN last.ret :
              /\ last.ret[i] = "Option 1 -> DeepInfra"
              /\ last.ret[i + 1] = "Total Requests: " \o NatToStr(deepinfra_requests)
        /\ \E i \in DOMAIN last.ret :
              /\ last.ret[i] = "Option 2 -> g4f + DuckDuckGo"
              /\ last.ret[i + 1] = "Total Requests: " \o NatToStr(g4f_requests)
        /\ Cardinality(CurrentLines) = 1
        /\ \A i \in CurrentLines :
              last.ret[i] =
                 IF Privileged(last.user_id) /\ owner_temp_option # None
                 THEN "Current Model: Option " \o NatToStr(owner_temp_option.n)
                      \o " (temporary for owner)"
                 ELSE "Current Model: Option " \o NatToStr(current_option)
        /\ roundtrip.stage = 2 =>
              /\ \A i \in CurrentLines : last.ret[i] = "Current Model: Option 2"
              /\ deepinfra_requests = roundtrip.deepinfra_requests
              /\ g4f_requests = roundtrip.g4f_requests

\* the owner asks for the status while an override of 2 hides option 1, with
\* both counters above zero
C8_Witness ==
    /\ last.kind = "status"
    /\ Privileged(last.user_id)
    /\ owner_temp_option = PyInt(2)
    /\ current_option = 1
    /\ deepinfra_requests > 0
    /\ g4f_requests > 0

(* C9 *)

\* the router lets the override decide for this caller
RouterApplies(user_id) ==
    /\ owner_temp_option # None
    /\ \A cur \in {1, 2} :
          option_to_use(user_id, OWNER_ID, cur, owner_temp_option)
             = owner_temp_option.n

\* the status names the override as this caller's current model
StatusShowsOverride(user_id) ==
    /\ owner_temp_option # None
    /\ CurrentLine(user_id, OWNER_ID, current_option, owner_temp_option)
          = "Current Model: Option " \o NatToStr(owner_temp_option.n)
            \o " (temporary for owner)"

Authorized(user_id) ==
    handle_option_command(user_id, "/tryoption 1", OWNER_ID, current_option,
                          owner_temp_option).ret # PyStr(REFUSAL)

\* C9: for every caller identity the router applies the override exactly when
\* the status reports it as that caller's temporary model, both only for
\* callers the option commands authorize, and the model the status names is
\* the option the router would use for that caller.
C9_ComponentsAgree ==
    \A user_id \in UserIds :
        /\ RouterApplies(user_id) <=> StatusShowsOverride(user_id)
        /\ RouterApplies(user_id) => Authorized(user_id)
        /\ StatusShowsOverride(user_id) => Authorized(user_id)
        /\ LET used == option_to_use(user_id, OWNER_ID, current_option,
                                     owner_temp_option)
           IN CurrentLine(user_id, OWNER_ID, current_option, owner_temp_option)
                 \in { "Current Model: Option " \o NatToStr(used),
                       "Current Model: Option " \o NatToStr(used)
                          \o " (temporary for owner)" }

(* C10 *)

\* the option the router takes from a pair of globals for a caller
Determined(pair, user_id) ==
    IF PresentPrivileged(user_id) /\ pair.owner_temp_option # None
    THEN pair.owner_temp_option.n
    ELSE pair.current_option

NoRouterCallSuspended == \A task \in BagToSet(suspended) : task.kind # "route"

RoutedByLastAdmin ==
    last.kind = "route" => Used = ProviderOf(Determined(last.started, last.user_id))

====
